---------------------------- MODULE Spec2Model ----------------------------
(***************************************************************************)
(* Model of the CRUD data service (BACKEND/src/index.js), of the table     *)
(* "data" it delegates to, and of the React client (FRONTEND/src/App.jsx   *)
(* with its fetch wrapper config/api.js).                                  *)
(*                                                                         *)
(* Spec       : the data service driven by arbitrary HTTP callers.         *)
(* ClientSpec : one client application, its connection check done, talking *)
(*              to the data service, with requests served and responses    *)
(*              delivered in any order.                                    *)
(* MountSpec  : the client's connection check at mount.                    *)
(* OverlapSpec: ClientSpec with handlers running side by side.             *)
(* EditSpec   : the client listing and editing records created earlier.    *)
(* MountLiveSpec, ClientLiveSpec : MountSpec and ClientSpec under the      *)
(*              fairness of the event loop and the network.                *)
(***************************************************************************)
EXTENDS Integers, Sequences, FiniteSets, Bags, TLC

(***************************************************************************)
(* Bounds of the model.                                                    *)
(***************************************************************************)
\* number of records the table's id sequence hands out (Spec)
MaxId == 2
\* number of records created while the client runs (ClientSpec, MountSpec)
MaxAdds == 1
\* number of client handlers (async functions) running at the same time
MaxHandlers == 1
\* the same where handlers overlap (OverlapSpec)
MaxOverlap == 2
\* number of records the table holds before the client starts (EditSpec)
SeedRows == 2

(***************************************************************************)
(* Values.                                                                 *)
(***************************************************************************)
\* JavaScript undefined where a name is expected
Undefined == "<undefined>"
\* non-empty names a caller submits
Names == {"X", "Y"}
\* what the name field of a JSON body can hold
NameInputs == Names \cup {"", Undefined}
\* "no id" (field absent from a body or a row, no path parameter)
NoId == 0
Ids == 1..MaxId
NoMsg == "<none>"

\* request bodies: present = FALSE is a request that carries no (JSON) body,
\* for which express.json() of Express 5 leaves req.body undefined; a body
\* may carry an id field besides the name
Bodies ==
    {[present |-> FALSE, name |-> Undefined, id |-> NoId]}
    \cup [present : {TRUE}, name : NameInputs, id : {NoId, 1}]

\* what the awaited supabase call does: resolves with data, resolves with
\* {error}, or rejects
DbOutcomes == {"ok", "error", "throw"}

DbErrMsg == "db error"
ThrowMsg == "fetch failed"
DupKeyMsg == "duplicate key value violates unique constraint"
TypeErrMsg == "Cannot destructure property 'name' of 'req.body' as it is undefined."

VARIABLES
    \* ---- database (table "data") ----
    table,      \* rows [id, name, created_at] in physical (heap) order
    nextId,     \* next value of the id sequence
    now,        \* database clock: the instant the next insert executes at
    \* ---- the latest HTTP exchange of the data service ----
    req,        \* what the request carried: [present, name] of its body
    resp,       \* the response sent
    dbCall,     \* the database call that request made: [kind, err, rows]
    \* ---- history ----
    hist,       \* per id: what creates / updates / deletes answered so far
    deleted,    \* ids for which a DELETE has answered 200
    \* ---- client application ----
    client,     \* the component's useState cells
    handlers,   \* the async functions of the component that are running (a bag)
    notice      \* the alert() the latest step showed, "none" if it showed none

serverVars == <<table, nextId, now, req, resp, dbCall, hist, deleted>>
clientVars == <<client, handlers, notice>>
vars == <<table, nextId, now, req, resp, dbCall, hist, deleted, client, handlers, notice>>

(***************************************************************************)
(* The table "data" (hosted database).                                     *)
(***************************************************************************)
Row(i, n, t) == [id |-> i, name |-> n, created_at |-> t]

IdsOf(tbl) == {tbl[k].id : k \in 1..Len(tbl)}

RowSet(tbl) == {tbl[k] : k \in 1..Len(tbl)}

RECURSIVE InsertSorted(_, _)
InsertSorted(r, s) ==
    IF s = <<>> THEN <<r>>
    ELSE IF r.id <= Head(s).id THEN <<r>> \o s
    ELSE <<Head(s)>> \o InsertSorted(r, Tail(s))

RECURSIVE SortById(_)
SortById(s) ==
    IF s = <<>> THEN <<>> ELSE InsertSorted(Head(s), SortById(Tail(s)))

Filter(s, Keep(_)) == SelectSeq(s, Keep)

NoDb == [err |-> "none", data |-> <<>>, table |-> <<>>, nextId |-> 0,
         kind |-> "none", rows |-> 0]

\* result of a call that reached the database and failed there, or never
\* got an answer: the table is as it was
DbFailed(kind, out, tbl, nid) ==
    [err |-> out, data |-> <<>>, table |-> tbl, nextId |-> nid,
     kind |-> kind, rows |-> 0]

\* select * [order by id asc]
DbSelect(q, out, tbl, nid) ==
    IF out # "ok" THEN DbFailed("select", out, tbl, nid)
    ELSE [err |-> "none",
          data |-> IF q.order = "id_asc" THEN SortById(tbl) ELSE tbl,
          table |-> tbl, nextId |-> nid, kind |-> "select", rows |-> Len(tbl)]

\* select count, head only
DbCount(out, tbl, nid) ==
    IF out # "ok" THEN DbFailed("count", out, tbl, nid)
    ELSE [err |-> "none", data |-> <<>>, table |-> tbl, nextId |-> nid,
          kind |-> "count", rows |-> Len(tbl)]

\* insert one row, returning it: id from the sequence unless the row gives
\* one, created_at from the clock (default now())
DbInsert(row, out, tbl, nid, clock) ==
    IF out # "ok" THEN DbFailed("insert", out, tbl, nid)
    ELSE IF row.id # NoId /\ row.id \in IdsOf(tbl)
    THEN DbFailed("insert", "dup", tbl, nid)
    ELSE LET i == IF row.id = NoId THEN nid ELSE row.id
             r == Row(i, row.name, clock)
         IN [err |-> "none", data |-> <<r>>, table |-> Append(tbl, r),
             nextId |-> IF row.id = NoId THEN nid + 1 ELSE nid,
             kind |-> "insert", rows |-> 1]

\* .eq("id", i) restricts a statement to the rows with that id; a statement
\* with no filter applies to every row
Matches(f, r) == f.all \/ r.id = f.id

\* update ... [where id = f.id], returning the rows; moved: the new row
\* versions are written at the end of the heap instead of in place
DbUpdate(patch, f, moved, out, tbl, nid) ==
    LET Hit(r) == Matches(f, r)
        Miss(r) == ~Matches(f, r)
        New(r) == Row(IF patch.id = NoId THEN r.id ELSE patch.id,
                      patch.name, r.created_at)
        hits == Filter(tbl, Hit)
        news == [k \in 1..Len(hits) |-> New(hits[k])]
        inPlace == [k \in 1..Len(tbl) |-> IF Hit(tbl[k]) THEN New(tbl[k]) ELSE tbl[k]]
        result == IF moved THEN Filter(tbl, Miss) \o news ELSE inPlace
    IN IF out # "ok" THEN DbFailed("update", out, tbl, nid)
       ELSE IF Cardinality(IdsOf(result)) # Len(result)
       THEN DbFailed("update", "dup", tbl, nid)
       ELSE [err |-> "none", data |-> news, table |-> result, nextId |-> nid,
             kind |-> "update", rows |-> Len(hits)]

\* delete ... [where id = f.id]
DbDelete(f, out, tbl, nid) ==
    LET Hit(r) == Matches(f, r)
        Miss(r) == ~Matches(f, r)
    IN IF out # "ok" THEN DbFailed("delete", out, tbl, nid)
       ELSE [err |-> "none", data |-> <<>>, table |-> Filter(tbl, Miss),
             nextId |-> nid, kind |-> "delete", rows |-> Len(Filter(tbl, Hit))]

\* error.message of a call that resolved with {error}
ErrorMessage(r) == IF r.err = "dup" THEN DupKeyMsg ELSE DbErrMsg

(***************************************************************************)
(* The data service: BACKEND/src/index.js.                                 *)
(***************************************************************************)
\* JavaScript !name
Falsy(v) == v = Undefined \/ v = ""

\* res.status(c).json({status: "error", message})
ErrorResp(op, i, c, msg) ==
    [op |-> op, id |-> i, code |-> c, status |-> "error", message |-> msg,
     shape |-> "none", data |-> <<>>]

\* res.json({status: "ok", ...}): express answers 200
OkResp(op, i, msg, shape, data) ==
    [op |-> op, id |-> i, code |-> 200, status |-> "ok", message |-> msg,
     shape |-> shape, data |-> data]

\* what a handler run amounts to: the response and the database call made
Done(r, db) == [resp |-> r, db |-> db]

\* the catch block of the /api/data handlers
Caught(op, i, msg, db) == Done(ErrorResp(op, i, 500, msg), db)

\* if (error) return res.status(500)...
DbErrorResp(op, i, db) == Done(ErrorResp(op, i, 500, ErrorMessage(db)), db)

\* the catch block of the health check
HealthCaughtAs500(db) ==
    Done(ErrorResp("HEALTH", NoId, 500, ThrowMsg), db)
HealthCaught(db) ==
    Done(OkResp("HEALTH", NoId, "Backend running", "none", <<>>), db)

\* GET /api/health
HealthHandler(out, tbl, nid) ==
    LET db == DbCount(out, tbl, nid) IN
    IF db.err = "throw" THEN HealthCaught(db)
    ELSE IF db.err # "none"
    THEN Done(OkResp("HEALTH", NoId,
                     "Backend connected (DB: " \o ErrorMessage(db) \o ")",
                     "none", <<>>), db)
    ELSE Done(OkResp("HEALTH", NoId, "Backend and Supabase connected",
                     "none", <<>>), db)

\* .select("*").order("id", { ascending: true })
ListQueryUnordered == [columns |-> "*", order |-> "none"]
ListQuery == [columns |-> "*", order |-> "id_asc"]

\* GET /api/data
GetHandler(out, tbl, nid) ==
    LET db == DbSelect(ListQuery, out, tbl, nid) IN
    IF db.err = "throw" THEN Caught("GET", NoId, ThrowMsg, db)
    ELSE IF db.err # "none" THEN DbErrorResp("GET", NoId, db)
    ELSE Done(OkResp("GET", NoId, NoMsg, "list", db.data), db)

\* const { name } = req.body throws a TypeError when req.body is undefined
DestructureThrows(body) == ~body.present

\* if (!name)
NameRejected(body) == Falsy(body.name)

\* .insert([{ name }])
InsertRowWholeBody(body) == [name |-> body.name, id |-> body.id]
InsertRow(body) == [name |-> body.name, id |-> NoId]

\* POST /api/data
PostHandler(body, out, tbl, nid, clock) ==
    IF DestructureThrows(body) THEN Caught("POST", NoId, TypeErrMsg, NoDb)
    ELSE IF NameRejected(body)
    THEN Done(ErrorResp("POST", NoId, 400, "Name is required"), NoDb)
    ELSE LET db == DbInsert(InsertRow(body), out, tbl, nid, clock) IN
         IF db.err = "throw" THEN Caught("POST", NoId, ThrowMsg, db)
         ELSE IF db.err # "none" THEN DbErrorResp("POST", NoId, db)
         ELSE Done(OkResp("POST", NoId, NoMsg, "record", <<db.data[1]>>), db)

\* .update({ name })
UpdatePatchWholeBody(body) == [name |-> body.name, id |-> body.id]
UpdatePatch(body) == [name |-> body.name, id |-> NoId]

\* data[0] of an update that matched no row is undefined: the field is left
\* out of the JSON body
FirstOrNone(data) == IF data = <<>> THEN <<>> ELSE <<data[1]>>

\* .eq("id", id) of the update
UpdateFilterNone(i) == [all |-> TRUE, id |-> i]
UpdateFilter(i) == [all |-> FALSE, id |-> i]

\* PUT /api/data/:id
PutHandler(i, body, moved, out, tbl, nid) ==
    IF DestructureThrows(body) THEN Caught("PUT", i, TypeErrMsg, NoDb)
    ELSE IF NameRejected(body)
    THEN Done(ErrorResp("PUT", i, 400, "Name is required"), NoDb)
    ELSE LET db == DbUpdate(UpdatePatch(body), UpdateFilter(i), moved, out, tbl, nid) IN
         IF db.err = "throw" THEN Caught("PUT", i, ThrowMsg, db)
         ELSE IF db.err # "none" THEN DbErrorResp("PUT", i, db)
         ELSE Done(OkResp("PUT", i, NoMsg,
                          IF db.data = <<>> THEN "none" ELSE "record",
                          FirstOrNone(db.data)), db)

\* .eq("id", id) of the delete
DeleteFilter(i) == [all |-> FALSE, id |-> i]

\* if (error) of the delete handler
DeleteFailedIgnored(db) == FALSE
DeleteFailedWhenAbsent(db) == db.err # "none" \/ db.rows = 0
DeleteFailed(db) == db.err # "none"

\* DELETE /api/data/:id
DeleteHandler(i, out, tbl, nid) ==
    LET db == DbDelete(DeleteFilter(i), out, tbl, nid) IN
    IF db.err = "throw" THEN Caught("DELETE", i, ThrowMsg, db)
    ELSE IF DeleteFailed(db) THEN DbErrorResp("DELETE", i, db)
    ELSE Done(OkResp("DELETE", i, "Deleted successfully", "none", <<>>), db)

(***************************************************************************)
(* History kept for the properties.                                        *)
(***************************************************************************)
NoHist == [st |-> "none", name |-> Undefined, created_at |-> 0]

\* a create answered 200 with record r
HistCreated(h, r) ==
    [h EXCEPT ![r.id] = [st |-> IF h[r.id].st = "none" THEN "created" ELSE "reused",
                         name |-> r.name, created_at |-> r.created_at]]

\* an update of id i to name n answered 200 with a record
HistUpdated(h, i, n) ==
    IF h[i].st \in {"created", "updated"}
    THEN [h EXCEPT ![i].st = "updated", ![i].name = n]
    ELSE h

\* a delete of id i answered 200
HistDeleted(h, i) ==
    IF h[i].st = "none" THEN h ELSE [h EXCEPT ![i].st = "gone"]

\* ids a create has returned so far
Assigned(h) == {i \in Ids : h[i].st # "none"}

(***************************************************************************)
(* One request served by the data service: the handler runs from the       *)
(* request to the response, with its one database call in between.         *)
(***************************************************************************)
NoBody == [present |-> FALSE, name |-> Undefined]

Apply(body, o) ==
    /\ req' = [present |-> body.present, name |-> body.name]
    /\ resp' = o.resp
    /\ dbCall' = [kind |-> o.db.kind, err |-> o.db.err, rows |-> o.db.rows]
    /\ table' = IF o.db.kind = "none" THEN table ELSE o.db.table
    /\ nextId' = IF o.db.kind = "none" THEN nextId ELSE o.db.nextId

ServeHealth(out) ==
    /\ Apply(NoBody, HealthHandler(out, table, nextId))
    /\ UNCHANGED <<now, hist, deleted>>

ServeGet(out) ==
    /\ Apply(NoBody, GetHandler(out, table, nextId))
    /\ UNCHANGED <<now, hist, deleted>>

ServePost(body, out) ==
    LET o == PostHandler(body, out, table, nextId, now) IN
    /\ o.db.kind = "insert" => nextId <= MaxId
    /\ Apply(body, o)
    /\ hist' = IF o.resp.code = 200 THEN HistCreated(hist, o.resp.data[1]) ELSE hist
    /\ now' = IF o.db.kind = "insert" /\ o.db.err = "none" THEN now + 1 ELSE now
    /\ UNCHANGED deleted

ServePut(i, body, moved, out) ==
    LET o == PutHandler(i, body, moved, out, table, nextId) IN
    /\ Apply(body, o)
    /\ hist' = IF o.resp.code = 200 /\ o.resp.shape = "record"
               THEN HistUpdated(hist, i, body.name) ELSE hist
    /\ UNCHANGED <<now, deleted>>

ServeDelete(i, out) ==
    LET o == DeleteHandler(i, out, table, nextId) IN
    /\ Apply(NoBody, o)
    /\ hist' = IF o.resp.code = 200 THEN HistDeleted(hist, i) ELSE hist
    /\ deleted' = IF o.resp.code = 200
                  THEN [deleted EXCEPT ![i] =
                           IF hist[i].st = "none" /\ deleted[i] # "assigned"
                           THEN "unassigned" ELSE "assigned"]
                  ELSE deleted
    /\ UNCHANGED now

(***************************************************************************)
(* The data service driven by arbitrary callers.                           *)
(***************************************************************************)
NoResp == [op |-> "NONE", id |-> NoId, code |-> 0, status |-> "", message |-> NoMsg,
           shape |-> "none", data |-> <<>>]

ServerInit ==
    /\ table = <<>>
    /\ nextId = 1
    /\ now = 1
    /\ req = NoBody
    /\ resp = NoResp
    /\ dbCall = [kind |-> "none", err |-> "none", rows |-> 0]
    /\ hist = [i \in Ids |-> NoHist]
    /\ deleted = [i \in Ids |-> "no"]

Health == \E out \in DbOutcomes : ServeHealth(out)
Get == \E out \in DbOutcomes : ServeGet(out)
Post == \E body \in Bodies, out \in DbOutcomes : ServePost(body, out)
Put == \E i \in Ids, body \in Bodies, moved \in BOOLEAN, out \in DbOutcomes :
          ServePut(i, body, moved, out)
Delete == \E i \in Ids, out \in DbOutcomes : ServeDelete(i, out)

(***************************************************************************)
(* The fetch wrapper: FRONTEND/src/config/api.js.                          *)
(***************************************************************************)
\* response.ok
ResponseOk(code) == 200 <= code /\ code <= 299

\* api.fetch resolves with the JSON body of a 2xx response and rejects on
\* any other response and when fetch itself rejects
ResolvedAnyAnswer(h) == h.net = "answered"
Resolved(h) == h.net = "answered" /\ ResponseOk(h.code)
Rejected(h) == h.net = "failed" \/ (h.net = "answered" /\ ~ResponseOk(h.code))

(***************************************************************************)
(* The client application: FRONTEND/src/App.jsx.                           *)
(***************************************************************************)
\* text a user types into an input
TypedTexts == {" ", "Y"}

\* String.prototype.trim on the texts of the model
TrimNone(t) == t
Trim(t) == IF t = " " THEN "" ELSE t

\* !text.trim()
BlankNever(t) == FALSE
Blank(t) == Trim(t) = ""

\* !confirm(...)
DeclinedNever(accepted) == FALSE
Declined(accepted) == ~accepted

\* values of actionLoading: null, 'add', or a row id
NoAction == [kind |-> "null", id |-> NoId]
AddAction == [kind |-> "add", id |-> NoId]
RowAction(i) == [kind |-> "row", id |-> i]

Idle == [kind |-> "idle", id |-> NoId, name |-> "", phase |-> "none",
         net |-> "none", code |-> 0, message |-> "", data |-> <<>>]

\* a handler that has just issued the request of its phase
Awaiting(kind, i, n, phase) ==
    [kind |-> kind, id |-> i, name |-> n, phase |-> phase,
     net |-> "sent", code |-> 0, message |-> "", data |-> <<>>]

Running == BagToSet(handlers)

Start(h) == handlers' = handlers (+) SetToBag({h})

Finish(h) == handlers' = handlers (-) SetToBag({h})

Become(h, g) == handlers' = (handlers (-) SetToBag({h})) (+) SetToBag({g})

\* useState initial values
InitialCells ==
    [backendStatus |-> "Checking...", loading |-> TRUE,
     data |-> <<>>, dataLoading |-> FALSE, showData |-> FALSE,
     editingId |-> NoId, editValue |-> "",
     showAddForm |-> FALSE, newName |-> "",
     actionLoading |-> NoAction]

\* after the mount effect: checkBackendConnection() has issued GET /api/health
ClientMounted ==
    /\ client = InitialCells
    /\ handlers = SetToBag({Awaiting("health", NoId, "", "mut")})
    /\ notice = "none"

\* rows on screen
Shown == IF client.showData THEN RowSet(client.data) ELSE {}

\* ---- events of the user ----

\* fetchData called from the Fetch Data button, up to its await
fetchData ==
    /\ ~client.dataLoading
    /\ Start(Awaiting("fetch", NoId, "", "reload"))
    /\ client' = [client EXCEPT !.dataLoading = TRUE]
    /\ notice' = "none"

\* the Add New / Cancel button
ToggleAddForm ==
    /\ client' = [client EXCEPT !.showAddForm = ~client.showAddForm]
    /\ notice' = "none"
    /\ UNCHANGED handlers

\* typing into the add form
TypeNewName(t) ==
    /\ client.showAddForm
    /\ client' = [client EXCEPT !.newName = t]
    /\ notice' = "none"
    /\ UNCHANGED handlers

\* handleAdd up to its first await
handleAdd ==
    /\ client.showAddForm
    /\ client.actionLoading # AddAction
    /\ IF Blank(client.newName)
       THEN /\ notice' = "Please enter a name"
            /\ UNCHANGED <<client, handlers>>
       ELSE /\ Start(Awaiting("add", NoId, client.newName, "mut"))
            /\ client' = [client EXCEPT !.actionLoading = AddAction]
            /\ notice' = "none"

\* handleEdit
handleEditKeepsText(item) ==
    /\ item \in Shown
    /\ client.editingId # item.id
    /\ client' = [client EXCEPT !.editingId = item.id]
    /\ notice' = "none"
    /\ UNCHANGED handlers
handleEdit(item) ==
    /\ item \in Shown
    /\ client.editingId # item.id
    /\ client' = [client EXCEPT !.editingId = item.id, !.editValue = item.name]
    /\ notice' = "none"
    /\ UNCHANGED handlers

\* typing into the input of the row being edited
TypeEditValue(t) ==
    /\ client.showData /\ client.editingId \in IdsOf(client.data)
    /\ client' = [client EXCEPT !.editValue = t]
    /\ notice' = "none"
    /\ UNCHANGED handlers

\* handleSave up to its first await
handleSave(item) ==
    /\ item \in Shown
    /\ client.editingId = item.id
    /\ client.actionLoading # RowAction(item.id)
    /\ IF Blank(client.editValue)
       THEN /\ notice' = "Please enter a name"
            /\ UNCHANGED <<client, handlers>>
       ELSE /\ Start(Awaiting("save", item.id, client.editValue, "mut"))
            /\ client' = [client EXCEPT !.actionLoading = RowAction(item.id)]
            /\ notice' = "none"

\* handleCancel
handleCancel ==
    /\ client.showData /\ client.editingId \in IdsOf(client.data)
    /\ client' = [client EXCEPT !.editingId = NoId, !.editValue = ""]
    /\ notice' = "none"
    /\ UNCHANGED handlers

\* handleDelete up to its await; accepted is the answer to confirm()
handleDelete(item, accepted) ==
    /\ item \in Shown
    /\ client.editingId # item.id
    /\ client.actionLoading # RowAction(item.id)
    /\ notice' = "none"
    /\ IF Declined(accepted)
       THEN UNCHANGED <<client, handlers>>
       ELSE /\ Start(Awaiting("delete", item.id, "", "mut"))
            /\ client' = [client EXCEPT !.actionLoading = RowAction(item.id)]

\* ---- continuations of the handlers ----

Settled(h) == h.net \in {"answered", "failed"}

\* setBackendStatus in try and in catch
ConnectionStatus(h) ==
    IF Resolved(h)
    THEN (IF h.message = "" THEN "Connected!" ELSE h.message)
    ELSE "Failed to connect to backend"

\* the cells after try / catch / finally of checkBackendConnection
ConnectionCheckedInTry(c, h) ==
    [c EXCEPT !.backendStatus = ConnectionStatus(h),
              !.loading = IF Resolved(h) THEN FALSE ELSE c.loading]
ConnectionChecked(c, h) ==
    [c EXCEPT !.backendStatus = ConnectionStatus(h), !.loading = FALSE]

\* checkBackendConnection after its await: try / catch / finally
checkBackendConnection(h) ==
    /\ h.kind = "health" /\ Settled(h)
    /\ client' = ConnectionChecked(client, h)
    /\ Finish(h)
    /\ notice' = "none"

\* fetchData after its await: try / catch / finally
FetchSettled(c, h) ==
    IF Resolved(h)
    THEN [c EXCEPT !.data = h.data, !.showData = TRUE, !.dataLoading = FALSE]
    ELSE [c EXCEPT !.dataLoading = FALSE]

FetchNotice(h) ==
    IF Resolved(h) THEN "none" ELSE "Failed to fetch data from database"

\* fetchData called from the Fetch Data button settles
FetchDone(h) ==
    /\ h.kind = "fetch" /\ Settled(h)
    /\ client' = FetchSettled(client, h)
    /\ notice' = FetchNotice(h)
    /\ Finish(h)

\* what handleAdd / handleSave / handleDelete set between the mutation's
\* success and the call of fetchData
AddSucceeded(c) == [c EXCEPT !.newName = "", !.showAddForm = FALSE]

SaveSucceededKeeps(c) == c
SaveSucceeded(c) == [c EXCEPT !.editingId = NoId, !.editValue = ""]

DeleteSucceeded(c) == c

Succeeded(kind, c) ==
    IF kind = "add" THEN AddSucceeded(c)
    ELSE IF kind = "save" THEN SaveSucceeded(c)
    ELSE DeleteSucceeded(c)

FailureNotice(kind) ==
    IF kind = "add" THEN "Failed to add data"
    ELSE IF kind = "save" THEN "Failed to update data"
    ELSE "Failed to delete data"

Mutations == {"add", "save", "delete"}

\* finally { setActionLoading(null) }
FinallySkipped(c) == c
Finally(c) == [c EXCEPT !.actionLoading = NoAction]

\* handleAdd / handleSave / handleDelete after the await of the mutation:
\* on success up to the await inside fetchData, on failure through catch and
\* finally
MutationDone(h) ==
    /\ h.kind \in Mutations /\ h.phase = "mut" /\ Settled(h)
    /\ IF Resolved(h)
       THEN /\ client' = [Succeeded(h.kind, client) EXCEPT !.dataLoading = TRUE]
            /\ Become(h, Awaiting(h.kind, h.id, "", "reload"))
            /\ notice' = "none"
       ELSE /\ client' = Finally(client)
            /\ Finish(h)
            /\ notice' = FailureNotice(h.kind)

\* handleAdd / handleSave / handleDelete after await fetchData(): fetchData
\* settles (it catches its own failure), then finally
ReloadDone(h) ==
    /\ h.kind \in Mutations /\ h.phase = "reload" /\ Settled(h)
    /\ client' = Finally(FetchSettled(client, h))
    /\ notice' = FetchNotice(h)
    /\ Finish(h)

\* ---- the network and the data service, seen from the client ----

\* the request a waiting handler has in flight
RequestOp(h) ==
    IF h.kind = "health" THEN "HEALTH"
    ELSE IF h.phase = "reload" THEN "GET"
    ELSE IF h.kind = "add" THEN "POST"
    ELSE IF h.kind = "save" THEN "PUT"
    ELSE "DELETE"

\* JSON.stringify({ name }) of post and put
RequestBody(h) == [present |-> TRUE, name |-> h.name, id |-> NoId]

\* the data service handles the request of handler h
Outcome(h, moved, out) ==
    IF RequestOp(h) = "HEALTH" THEN HealthHandler(out, table, nextId)
    ELSE IF RequestOp(h) = "GET" THEN GetHandler(out, table, nextId)
    ELSE IF RequestOp(h) = "POST"
    THEN PostHandler(RequestBody(h), out, table, nextId, now)
    ELSE IF RequestOp(h) = "PUT"
    THEN PutHandler(h.id, RequestBody(h), moved, out, table, nextId)
    ELSE DeleteHandler(h.id, out, table, nextId)

\* what the continuation can read of the response: response.ok, and of the
\* JSON body response.message (health) and response.data || [] (list)
Answered(h, r) ==
    [h EXCEPT !.net = "answered", !.code = r.code, !.name = "",
              !.message = IF r.op = "HEALTH" THEN r.message ELSE "",
              !.data = IF r.shape = "list" THEN r.data ELSE <<>>]

Serve(h, moved, out) ==
    LET o == Outcome(h, moved, out)
        inserted == o.db.kind = "insert" /\ o.db.err = "none"
    IN /\ h.net = "sent"
       /\ table' = IF o.db.kind = "none" THEN table ELSE o.db.table
       /\ nextId' = IF o.db.kind = "none" THEN nextId ELSE o.db.nextId
       /\ now' = IF inserted THEN now + 1 ELSE now
       /\ Become(h, Answered(h, o.resp))
       /\ UNCHANGED <<req, resp, dbCall, hist, deleted, client, notice>>

\* the bound of a run: at most maxHandlers async functions running at a
\* time, at most maxAdds records created
Within(maxHandlers, maxAdds) ==
    /\ BagCardinality(handlers') <= maxHandlers
    /\ nextId' <= maxAdds + 1

\* fetch rejects: the request or its response is lost
NetFail(h) ==
    /\ h.net \in {"sent", "answered"}
    /\ Become(h, [h EXCEPT !.net = "failed", !.code = 0, !.name = "",
                           !.message = "", !.data = <<>>])
    /\ UNCHANGED <<serverVars, client, notice>>

(***************************************************************************)
(* The data service driven by arbitrary callers (the client stays as       *)
(* mounted).                                                               *)
(***************************************************************************)
Init == ServerInit /\ ClientMounted

Next ==
    \/ Health /\ UNCHANGED clientVars
    \/ Get /\ UNCHANGED clientVars
    \/ Post /\ UNCHANGED clientVars
    \/ Put /\ UNCHANGED clientVars
    \/ Delete /\ UNCHANGED clientVars

Spec == Init /\ [][Next]_vars

(***************************************************************************)
(* The client's connection check at mount.                                 *)
(***************************************************************************)
MountNext ==
    \/ \E h \in Running : checkBackendConnection(h) /\ UNCHANGED serverVars
          /\ Within(MaxHandlers, MaxAdds)
    \/ fetchData /\ UNCHANGED serverVars
          /\ Within(MaxHandlers, MaxAdds)
    \/ \E h \in Running : FetchDone(h) /\ UNCHANGED serverVars
          /\ Within(MaxHandlers, MaxAdds)
    \/ ToggleAddForm /\ UNCHANGED serverVars
          /\ Within(MaxHandlers, MaxAdds)
    \/ \E t \in TypedTexts : TypeNewName(t) /\ UNCHANGED serverVars
          /\ Within(MaxHandlers, MaxAdds)
    \/ \E h \in Running, out \in DbOutcomes : Serve(h, FALSE, out)
          /\ Within(MaxHandlers, MaxAdds)
    \/ \E h \in Running : NetFail(h)
          /\ Within(MaxHandlers, MaxAdds)

MountSpec == Init /\ [][MountNext]_vars

\* one step of the connection check h: its request is served or fails, or
\* its continuation runs
HealthStep(h) ==
    /\ h.kind = "health"
    /\ \/ \E out \in DbOutcomes : Serve(h, FALSE, out)
       \/ NetFail(h)
       \/ checkBackendConnection(h) /\ UNCHANGED serverVars
    /\ Within(MaxHandlers, MaxAdds)

\* every request gets a response or fails, and the event loop runs the
\* continuation of a settled promise
MountLiveSpec ==
    /\ Init
    /\ [][MountNext]_vars
    /\ WF_vars(\E h \in Running : HealthStep(h))

(***************************************************************************)
(* One client application, its connection check done, and the data         *)
(* service.                                                                *)
(***************************************************************************)
ClientConnected ==
    /\ client = [InitialCells EXCEPT
                    !.backendStatus = "Backend and Supabase connected",
                    !.loading = FALSE]
    /\ handlers = EmptyBag
    /\ notice = "none"

ClientInit == ServerInit /\ ClientConnected

ClientNext ==
    \/ fetchData /\ UNCHANGED serverVars
          /\ Within(MaxHandlers, MaxAdds)
    \/ ToggleAddForm /\ UNCHANGED serverVars
          /\ Within(MaxHandlers, MaxAdds)
    \/ \E t \in TypedTexts : TypeNewName(t) /\ UNCHANGED serverVars
          /\ Within(MaxHandlers, MaxAdds)
    \/ handleAdd /\ UNCHANGED serverVars
          /\ Within(MaxHandlers, MaxAdds)
    \/ \E item \in Shown : handleEdit(item) /\ UNCHANGED serverVars
          /\ Within(MaxHandlers, MaxAdds)
    \/ \E t \in TypedTexts : TypeEditValue(t) /\ UNCHANGED serverVars
          /\ Within(MaxHandlers, MaxAdds)
    \/ \E item \in Shown : handleSave(item) /\ UNCHANGED serverVars
          /\ Within(MaxHandlers, MaxAdds)
    \/ handleCancel /\ UNCHANGED serverVars
          /\ Within(MaxHandlers, MaxAdds)
    \/ \E item \in Shown, accepted \in BOOLEAN :
          handleDelete(item, accepted) /\ UNCHANGED serverVars
          /\ Within(MaxHandlers, MaxAdds)
    \/ \E h \in Running : FetchDone(h) /\ UNCHANGED serverVars
          /\ Within(MaxHandlers, MaxAdds)
    \/ \E h \in Running : MutationDone(h) /\ UNCHANGED serverVars
          /\ Within(MaxHandlers, MaxAdds)
    \/ \E h \in Running : ReloadDone(h) /\ UNCHANGED serverVars
          /\ Within(MaxHandlers, MaxAdds)
    \/ \E h \in Running, moved \in BOOLEAN, out \in DbOutcomes : Serve(h, moved, out)
          /\ Within(MaxHandlers, MaxAdds)
    \/ \E h \in Running : NetFail(h)
          /\ Within(MaxHandlers, MaxAdds)

ClientSpec == ClientInit /\ [][ClientNext]_vars

\* one step of the add, save or delete handler h: its request is served or
\* fails, or its continuation runs
MutationStep(h) ==
    /\ h.kind \in Mutations
    /\ \/ \E moved \in BOOLEAN, out \in DbOutcomes : Serve(h, moved, out)
       \/ NetFail(h)
       \/ MutationDone(h) /\ UNCHANGED serverVars
       \/ ReloadDone(h) /\ UNCHANGED serverVars
    /\ Within(MaxHandlers, MaxAdds)

\* every request gets a response or fails, and the event loop runs the
\* continuation of a settled promise
ClientLiveSpec ==
    /\ ClientInit
    /\ [][ClientNext]_vars
    /\ \A kind \in Mutations :
          WF_vars(\E h \in Running : h.kind = kind /\ MutationStep(h))

(***************************************************************************)
(* The same with handlers running side by side: a second async function    *)
(* starts while the request of the first is still in flight.               *)
(***************************************************************************)
OverlapNext ==
    \/ fetchData /\ UNCHANGED serverVars
          /\ Within(MaxOverlap, MaxAdds)
    \/ ToggleAddForm /\ UNCHANGED serverVars
          /\ Within(MaxOverlap, MaxAdds)
    \/ \E t \in TypedTexts : TypeNewName(t) /\ UNCHANGED serverVars
          /\ Within(MaxOverlap, MaxAdds)
    \/ handleAdd /\ UNCHANGED serverVars
          /\ Within(MaxOverlap, MaxAdds)
    \/ \E item \in Shown : handleEdit(item) /\ UNCHANGED serverVars
          /\ Within(MaxOverlap, MaxAdds)
    \/ \E t \in TypedTexts : TypeEditValue(t) /\ UNCHANGED serverVars
          /\ Within(MaxOverlap, MaxAdds)
    \/ \E item \in Shown : handleSave(item) /\ UNCHANGED serverVars
          /\ Within(MaxOverlap, MaxAdds)
    \/ handleCancel /\ UNCHANGED serverVars
          /\ Within(MaxOverlap, MaxAdds)
    \/ \E item \in Shown, accepted \in BOOLEAN :
          handleDelete(item, accepted) /\ UNCHANGED serverVars
          /\ Within(MaxOverlap, MaxAdds)
    \/ \E h \in Running : FetchDone(h) /\ UNCHANGED serverVars
          /\ Within(MaxOverlap, MaxAdds)
    \/ \E h \in Running : MutationDone(h) /\ UNCHANGED serverVars
          /\ Within(MaxOverlap, MaxAdds)
    \/ \E h \in Running : ReloadDone(h) /\ UNCHANGED serverVars
          /\ Within(MaxOverlap, MaxAdds)
    \/ \E h \in Running, moved \in BOOLEAN, out \in DbOutcomes : Serve(h, moved, out)
          /\ Within(MaxOverlap, MaxAdds)
    \/ \E h \in Running : NetFail(h)
          /\ Within(MaxOverlap, MaxAdds)

OverlapSpec == ClientInit /\ [][OverlapNext]_vars

(***************************************************************************)
(* The client listing and editing records that were created earlier: the   *)
(* table holds SeedRows records when the client starts.                    *)
(***************************************************************************)
SeededTable == [k \in 1..SeedRows |-> Row(k, "X", k)]

EditInit ==
    /\ table = SeededTable
    /\ nextId = SeedRows + 1
    /\ now = SeedRows + 1
    /\ req = NoBody
    /\ resp = NoResp
    /\ dbCall = [kind |-> "none", err |-> "none", rows |-> 0]
    /\ hist = [i \in Ids |-> NoHist]
    /\ deleted = [i \in Ids |-> "no"]
    /\ ClientConnected

EditNext ==
    \/ fetchData /\ UNCHANGED serverVars
          /\ Within(MaxHandlers, SeedRows)
    \/ \E item \in Shown : handleEdit(item) /\ UNCHANGED serverVars
          /\ Within(MaxHandlers, SeedRows)
    \/ \E t \in TypedTexts : TypeEditValue(t) /\ UNCHANGED serverVars
          /\ Within(MaxHandlers, SeedRows)
    \/ \E item \in Shown : handleSave(item) /\ UNCHANGED serverVars
          /\ Within(MaxHandlers, SeedRows)
    \/ handleCancel /\ UNCHANGED serverVars
          /\ Within(MaxHandlers, SeedRows)
    \/ \E h \in Running : FetchDone(h) /\ UNCHANGED serverVars
          /\ Within(MaxHandlers, SeedRows)
    \/ \E h \in Running : MutationDone(h) /\ UNCHANGED serverVars
          /\ Within(MaxHandlers, SeedRows)
    \/ \E h \in Running : ReloadDone(h) /\ UNCHANGED serverVars
          /\ Within(MaxHandlers, SeedRows)
    \/ \E h \in Running, moved \in BOOLEAN, out \in DbOutcomes : Serve(h, moved, out)
          /\ Within(MaxHandlers, SeedRows)
    \/ \E h \in Running : NetFail(h)
          /\ Within(MaxHandlers, SeedRows)

EditSpec == EditInit /\ [][EditNext]_vars

(***************************************************************************)
(* Properties of the data service.  In Spec every step is one request      *)
(* served: req, resp and dbCall of the state after it describe that        *)
(* exchange, and table is the collection before it, table' the one after.  *)
(***************************************************************************)
Ascending(rows) == \A k \in 1..Len(rows) - 1 : rows[k].id < rows[k + 1].id

ListAnswered == resp.op = "GET" /\ resp.code = 200

\* C1: every POST /api/data and PUT /api/data/:id whose name is missing or
\* empty (name absent, name "", or no request body at all) is answered 400
\* with status "error", makes no database call and leaves the collection as
\* it was.
C1_MissingNameRejected ==
    [][(resp'.op \in {"POST", "PUT"} /\ Falsy(req'.name)) =>
          /\ resp'.code = 400
          /\ resp'.status = "error"
          /\ dbCall'.kind = "none"
          /\ table' = table]_vars

\* C2: for the list, create, update and delete endpoints the body's status
\* is "ok" exactly when the HTTP code is 200; a validation failure (a create
\* or update whose name is missing or empty) gives 400, a failed or throwing
\* database call gives 500, every other request gives 200, and every non-200
\* response carries status "error" and a message.
C2_StatusMatchesCode ==
    resp.op \in {"GET", "POST", "PUT", "DELETE"} =>
        LET invalid == resp.op \in {"POST", "PUT"} /\ Falsy(req.name)
            failed == dbCall.err # "none"
        IN /\ resp.status = "ok" <=> resp.code = 200
           /\ invalid => resp.code = 400
           /\ failed => resp.code = 500
           /\ ~invalid /\ ~failed => resp.code = 200
           /\ resp.code # 200 => resp.status = "error" /\ resp.message # NoMsg

\* C3: every successful GET /api/data returns the full current collection
\* with ids in strictly ascending order, whatever the order of the inserts
\* and updates before it.
C3_ListAscending ==
    ListAnswered =>
        /\ Ascending(resp.data)
        /\ RowSet(resp.data) = RowSet(table)
        /\ Len(resp.data) = Len(table)

C3_Witness ==
    /\ ListAnswered
    /\ Len(table) >= 2
    /\ table[1].id > table[2].id

\* C4: a successful create returns exactly one record carrying the submitted
\* name, an id and a created_at, the id never returned by a create before;
\* the record joins the collection beside the records already there (so two
\* creates with one name give two records), and no two records of the
\* collection share an id.
C4_CreateFresh ==
    /\ [](Cardinality(IdsOf(table)) = Len(table))
    /\ [][(resp'.op = "POST" /\ resp'.code = 200) =>
            /\ resp'.shape = "record" /\ Len(resp'.data) = 1
            /\ ~Falsy(req'.name)
            /\ resp'.data[1].name = req'.name
            /\ resp'.data[1].id # NoId
            /\ resp'.data[1].created_at # 0
            /\ resp'.data[1].id \notin Assigned(hist)
            /\ resp'.data[1].id \notin IdsOf(table)
            /\ RowSet(table') = RowSet(table) \cup {resp'.data[1]}
            /\ Len(table') = Len(table) + 1]_vars

C4_Witness ==
    /\ resp.op = "POST" /\ resp.code = 200
    /\ Len(table) = 2
    /\ table[1].name = table[2].name
    /\ table[1].id # table[2].id

\* C5: once a create has returned id i and an update of i to name Y has
\* succeeded, a list holds exactly one record with id i, named Y, with the
\* created_at the create returned, whatever was done to other ids meanwhile.
C5_RoundTrip ==
    ListAnswered =>
        \A i \in Ids :
            hist[i].st = "updated" =>
                /\ Cardinality({k \in 1..Len(resp.data) : resp.data[k].id = i}) = 1
                /\ \A k \in 1..Len(resp.data) :
                      resp.data[k].id = i =>
                          /\ resp.data[k].name = hist[i].name
                          /\ resp.data[k].created_at = hist[i].created_at

C5_Witness ==
    /\ ListAnswered
    /\ Len(resp.data) = 2
    /\ hist[1].st = "updated"
    /\ hist[2].st = "updated"
    /\ resp.data[1].name # resp.data[2].name

\* C6 as stated: once a DELETE /api/data/:id has answered 200, no later list
\* holds a record with that id.
C6_DeletedNeverListed ==
    ListAnswered =>
        \A i \in Ids : deleted[i] # "no" => i \notin IdsOf(resp.data)

\* C6 as amended: once a DELETE /api/data/:id has answered 200 for an id
\* that a create had returned before, no later list holds a record with that
\* id (no update recreates it, no create reuses it).
C6_DeletedAssignedNeverListed ==
    ListAnswered =>
        \A i \in Ids : deleted[i] = "assigned" => i \notin IdsOf(resp.data)

C6_Witness ==
    /\ ListAnswered
    /\ deleted[1] = "assigned"
    /\ Len(resp.data) = 1
    /\ nextId = MaxId + 1

\* C7: when the database reports no error a DELETE answers 200, status "ok",
\* message "Deleted successfully", whether or not a record has the id; a
\* delete of an absent id leaves the collection as it is, so a second delete
\* of the same id answers the same and changes nothing after the first.
C7_DeleteIdempotent ==
    [][(resp'.op = "DELETE" /\ dbCall'.err = "none") =>
          /\ resp'.code = 200 /\ resp'.status = "ok"
          /\ resp'.message = "Deleted successfully"
          /\ resp'.id \notin IdsOf(table')
          /\ resp'.id \notin IdsOf(table) => table' = table
          /\ LET again == DeleteHandler(resp'.id, "ok", table', nextId')
             IN /\ again.resp = resp'
                /\ again.db.table = table']_vars

C7_Witness ==
    /\ resp.op = "DELETE" /\ resp.code = 200
    /\ deleted[resp.id] = "assigned"
    /\ dbCall = [kind |-> "delete", err |-> "none", rows |-> 0]
    /\ table # <<>>

\* C8: GET /api/health answers 200 with status "ok" and a message when the
\* database call succeeds, when it returns an error and when it throws, and
\* never changes the collection.
C8_HealthAlwaysOk ==
    [][resp'.op = "HEALTH" =>
          /\ dbCall'.kind = "count"
          /\ resp'.code = 200 /\ resp'.status = "ok"
          /\ resp'.message # NoMsg
          /\ table' = table /\ nextId' = nextId]_vars

C8_Witness ==
    /\ resp.op = "HEALTH" /\ resp.code = 200
    /\ resp.message = "Backend running"
    /\ dbCall.kind = "count" /\ dbCall.err = "throw"

\* C9: a successful PUT /api/data/:id changes only the name of the record
\* with that id (its id and created_at, every other record and the number
\* of records stay); when no record has the id the collection is unchanged
\* and the answer is still 200 "ok", with no record in it.
C9_UpdateFrame ==
    [][(resp'.op = "PUT" /\ resp'.code = 200) =>
          /\ resp'.status = "ok"
          /\ ~Falsy(req'.name)
          /\ Len(table') = Len(table)
          /\ IdsOf(table') = IdsOf(table)
          /\ \A r \in RowSet(table) :
                IF r.id = resp'.id
                THEN Row(r.id, req'.name, r.created_at) \in RowSet(table')
                ELSE r \in RowSet(table')
          /\ IF resp'.id \in IdsOf(table)
             THEN /\ resp'.shape = "record"
                  /\ resp'.data[1] \in RowSet(table')
                  /\ resp'.data[1].id = resp'.id
             ELSE /\ table' = table
                  /\ resp'.shape = "none" /\ resp'.data = <<>>]_vars

C9_Witness ==
    /\ resp.op = "PUT" /\ resp.code = 200 /\ resp.shape = "none"
    /\ resp.id \notin IdsOf(table)
    /\ hist[resp.id].st = "gone"
    /\ table # <<>>

(***************************************************************************)
(* Properties of the client application (ClientSpec).                      *)
(***************************************************************************)
\* the step in which handler h receives the success of its mutation
MutationSucceeded(h) == MutationDone(h) /\ Resolved(h)

\* C10 as stated: a successful add or save reloads before it clears its
\* transient cells: the step that receives the mutation's success and issues
\* the reload leaves editingId and editValue (save), newName and showAddForm
\* (add) as they are, so they are still set while the reload is in flight.
C10_ClearedAfterReload ==
    [][\A h \in Running :
          MutationSucceeded(h) =>
              /\ h.kind = "save" =>
                    /\ client'.editingId = client.editingId
                    /\ client'.editValue = client.editValue
              /\ h.kind = "add" =>
                    /\ client'.newName = client.newName
                    /\ client'.showAddForm = client.showAddForm]_vars

\* C10 as amended: a successful add or save follows the order mutate, clear
\* transient cells, full reload: the step that receives the mutation's
\* success clears editingId and editValue (save), newName and showAddForm
\* (add) and issues the reload, so they are already cleared when the reload
\* is in flight; the reload's completion leaves these four cells alone and
\* resets actionLoading.
C10_ClearedBeforeReload ==
    [][\A h \in Running :
          /\ MutationSucceeded(h) =>
                /\ h.kind = "save" =>
                      client'.editingId = NoId /\ client'.editValue = ""
                /\ h.kind = "add" =>
                      client'.newName = "" /\ client'.showAddForm = FALSE
                /\ client'.dataLoading
                /\ \E g \in BagToSet(handlers') :
                      /\ g.kind = h.kind /\ g.id = h.id
                      /\ g.phase = "reload" /\ g.net = "sent"
          /\ ReloadDone(h) =>
                /\ client'.editingId = client.editingId
                /\ client'.editValue = client.editValue
                /\ client'.newName = client.newName
                /\ client'.showAddForm = client.showAddForm
                /\ client'.actionLoading = NoAction]_vars

C10_Witness ==
    \E h \in Running :
        /\ h.kind = "save" /\ h.phase = "reload" /\ h.net = "sent"
        /\ client.editingId = NoId /\ client.editValue = ""
        /\ client.actionLoading = RowAction(h.id)
        /\ client.dataLoading

\* texts of the model that are empty after trimming
BlankTexts == {"", " "}

\* what a rejected submission amounts to: the notice, no request, no cell
\* changed
RejectedClientSide ==
    /\ notice' = "Please enter a name"
    /\ handlers' = handlers
    /\ client' = client
    /\ UNCHANGED serverVars

\* C13: handleAdd and handleSave called while the entered text is empty
\* after trimming show a notice, issue no request and leave actionLoading,
\* data, editingId, editValue, newName and showAddForm (every cell) as they
\* are.
C13_BlankRejected ==
    [][/\ (handleAdd /\ client.newName \in BlankTexts) => RejectedClientSide
       /\ \A item \in Shown :
             (handleSave(item) /\ client.editValue \in BlankTexts) =>
                 RejectedClientSide]_vars

C13_Witness ==
    /\ notice = "Please enter a name"
    /\ client.showData /\ client.editingId \in IdsOf(client.data)
    /\ client.editValue = " "
    /\ handlers = EmptyBag
    /\ client.actionLoading = NoAction

\* handler g's DELETE request is issued in this step
DeleteIssued(g) ==
    /\ g.kind = "delete" /\ g.phase = "mut" /\ g.net = "sent"
    /\ CopiesIn(g, handlers') > CopiesIn(g, handlers)

\* C14: every DELETE request the client issues for an id is issued by the
\* step in which the user accepts the confirmation prompt of the delete of
\* that row; when the user declines, no request is issued and no cell of the
\* client (actionLoading, data, edit state) changes.
C14_DeleteConfirmed ==
    [][/\ \A g \in BagToSet(handlers') :
             DeleteIssued(g) =>
                 \E item \in Shown : item.id = g.id /\ handleDelete(item, TRUE)
       /\ \A item \in Shown :
             handleDelete(item, FALSE) =>
                 /\ handlers' = handlers
                 /\ client' = client
                 /\ UNCHANGED serverVars]_vars

C14_Witness ==
    \E h \in Running :
        /\ h.kind = "delete" /\ h.phase = "mut" /\ h.net = "sent"
        /\ h.id \in IdsOf(client.data)
        /\ client.actionLoading = RowAction(h.id)

\* handler g's request is issued in this step
Issued(g) == g.net = "sent" /\ CopiesIn(g, handlers') > CopiesIn(g, handlers)

\* the step is an accepted trigger of the user that issues request g
Triggered(g) ==
    /\ \/ g.kind = "fetch" /\ fetchData
       \/ g.kind = "add" /\ g.phase = "mut" /\ handleAdd
       \/ \E item \in Shown :
             /\ g.id = item.id /\ g.phase = "mut"
             /\ \/ g.kind = "save" /\ handleSave(item)
                \/ g.kind = "delete" /\ handleDelete(item, TRUE)
    /\ handlers' = handlers (+) SetToBag({g})

\* the step is the reload that follows a mutation the client saw succeed
Reloading(g) ==
    \E h \in Running :
        /\ MutationSucceeded(h)
        /\ g = Awaiting(h.kind, h.id, "", "reload")
        /\ handlers' = (handlers (-) SetToBag({h})) (+) SetToBag({g})

\* C16: the client never retries: a request is issued only by an accepted
\* trigger of the user (one request per trigger) or as the reload after a
\* mutation that succeeded; when a mutation request fails (non-2xx response
\* or network failure) the handler shows its failure notice and ends, with
\* no reload and no other request issued, and every cell but actionLoading
\* (the add form's text, the row's edit state, data) as it was.
C16_NoRetry ==
    [][/\ \A g \in BagToSet(handlers') :
             Issued(g) => (Triggered(g) \/ Reloading(g))
       /\ \A h \in Running :
             (MutationDone(h) /\ Rejected(h)) =>
                 /\ notice' = FailureNotice(h.kind)
                 /\ handlers' = handlers (-) SetToBag({h})
                 /\ client' = [client EXCEPT !.actionLoading = NoAction]]_vars

C16_Witness ==
    /\ notice = "Failed to update data"
    /\ client.editingId \in IdsOf(client.data)
    /\ client.editValue = "Y"
    /\ handlers = EmptyBag
    /\ client.actionLoading = NoAction

\* C18: every create or update request of the client carries a JSON body
\* whose name the data service accepts, and none is answered 400.
C18_ClientNamesAccepted ==
    \A h \in Running :
        (h.kind \in {"add", "save"} /\ h.phase = "mut") =>
            /\ h.net = "sent" =>
                  /\ ~DestructureThrows(RequestBody(h))
                  /\ ~NameRejected(RequestBody(h))
            /\ h.net = "answered" => h.code # 400

C18_Witness ==
    \E h \in Running :
        /\ h.kind = "save" /\ h.phase = "mut"
        /\ h.net = "answered" /\ h.code = 200
        /\ \E r \in RowSet(table) : r.id = h.id /\ r.name = "Y"

\* number of running handlers of that kind
KindCount(kind, bag) ==
    LET same == {g \in BagToSet(bag) : g.kind = kind}
    IN BagCardinality([g \in same |-> CopiesIn(g, bag)])

\* a handler of that kind ends in this step
Ended(kind) == KindCount(kind, handlers') < KindCount(kind, handlers)

\* C20: when no add, save or delete handler is running actionLoading is
\* null, whether the mutation succeeded, the mutation failed, or the reload
\* after it failed; and, every request getting a response or a failure,
\* handlers of each kind do not stay forever: as long as some are running,
\* one of them ends again and again.
C20_MarkerNeverStuck ==
    /\ []((\A h \in Running : h.kind \notin Mutations) =>
            client.actionLoading = NoAction)
    /\ \A kind \in Mutations :
          \/ []<><<Ended(kind)>>_vars
          \/ <>[](KindCount(kind, handlers) = 0)

C20_Witness ==
    /\ handlers = EmptyBag
    /\ notice = "Failed to fetch data from database"
    /\ table # <<>> /\ client.newName = "" /\ ~client.showData
    /\ client.actionLoading = NoAction

(***************************************************************************)
(* Properties of the connection check (MountLiveSpec).                     *)
(***************************************************************************)
\* the messages GET /api/health answers with
HealthMessages == {HealthHandler(out, <<>>, 1).resp.message : out \in DbOutcomes}

ConnectFailedText == "Failed to connect to backend"

\* number of connection checks running
HealthChecks == KindCount("health", handlers)

\* C17: the connection status is determined once: one health request is
\* issued at mount with the status "Checking..." and loading true; loading
\* eventually becomes false, in the step that sets the status to the health
\* message received or, when the request failed, to the failure text; from
\* then on neither the status nor loading changes, and no health request is
\* ever issued again.
C17_StatusSetOnce ==
    /\ client.backendStatus = "Checking..." /\ client.loading /\ HealthChecks = 1
    /\ [](client.loading => client.backendStatus = "Checking..." /\ HealthChecks = 1)
    /\ [](~client.loading => HealthChecks = 0)
    /\ [][\A g \in BagToSet(handlers') : g.kind = "health" => ~Issued(g)]_vars
    /\ [][(client.loading /\ ~client'.loading) =>
             \E h \in Running :
                 /\ h.kind = "health" /\ Settled(h)
                 /\ handlers' = handlers (-) SetToBag({h})
                 /\ IF h.net = "answered" /\ ResponseOk(h.code)
                    THEN /\ client'.backendStatus = h.message
                         /\ h.message \in HealthMessages
                    ELSE client'.backendStatus = ConnectFailedText]_vars
    /\ [][~client.loading =>
             /\ ~client'.loading
             /\ client'.backendStatus = client.backendStatus]_vars
    /\ <>(~client.loading)

C17_Witness ==
    /\ ~client.loading
    /\ client.backendStatus = ConnectFailedText
    /\ client.showData
    /\ \E h \in Running : h.kind = "fetch"

(***************************************************************************)
(* Properties of editing (EditSpec).                                       *)
(***************************************************************************)
\* rows rendered with the edit input: editingId === item.id
EditableRows(c) == {r \in RowSet(c.data) : r.id = c.editingId}

\* C15: at most one row is in edit mode in every reachable state; handleEdit
\* on row B while another row A is being edited makes B the only row in edit
\* mode with the edit text B's current name (A's unsaved text is gone) and
\* issues no request.
C15_OneRowEdited ==
    /\ [](Cardinality(EditableRows(client)) <= 1)
    /\ [][\A item \in Shown :
             handleEdit(item) =>
                 /\ EditableRows(client') = {item}
                 /\ client'.editValue = item.name
                 /\ handlers' = handlers
                 /\ UNCHANGED serverVars]_vars

C15_Witness ==
    /\ client.showData /\ Len(client.data) >= 2
    /\ client.data[1].name = "Y"
    /\ client.editingId = client.data[2].id
    /\ client.editValue = client.data[2].name
    /\ client.editValue = "X"
    /\ handlers = EmptyBag

\* C19: the completion of a save of row A touches only A's edit state: when
\* another row B is in edit mode at the time A's update succeeds, B is still
\* in edit mode afterwards and its edit text is unchanged.
C19_OtherRowKeepsEdit ==
    [][\A h \in Running :
          (/\ MutationSucceeded(h) /\ h.kind = "save"
           /\ client.editingId \notin {NoId, h.id}) =>
              /\ client'.editingId = client.editingId
              /\ client'.editValue = client.editValue]_vars

(***************************************************************************)
(* Properties of overlapping handlers (OverlapSpec).                       *)
(***************************************************************************)
\* the mutation request of handler h is on its way or its response is
InFlight(h) == h.kind \in Mutations /\ h.phase = "mut" /\ h.net \in {"sent", "answered"}

\* the value of actionLoading that disables the button which started h
Marker(h) == IF h.kind = "add" THEN AddAction ELSE RowAction(h.id)

\* number of handlers with an in-flight request of that action for that target
InFlightCount(kind, i) ==
    LET same == {g \in Running : InFlight(g) /\ g.kind = kind /\ g.id = i}
    IN BagCardinality([g \in same |-> CopiesIn(g, handlers)])

\* C11: the client never has two in-flight submissions of one action for
\* one target (two POSTs of the add form, two PUTs or two DELETEs of one row
\* id), and the button that started a request stays disabled (actionLoading
\* holds its marker) as long as that request is in flight, also while
\* another action starts or finishes.
C11_NoDuplicateSubmission ==
    \A h \in Running :
        InFlight(h) =>
            /\ InFlightCount(h.kind, h.id) = 1
            /\ client.actionLoading = Marker(h)

\* the step in which the reload of handler h succeeds
ReloadSucceeded(h) == (FetchDone(h) \/ ReloadDone(h)) /\ Resolved(h)

\* C12: after every successful create, update or delete the client issues a
\* reload of the whole collection, and when a reload succeeds and leaves the
\* client with no request in flight (so the most recent reload succeeded),
\* the client's data is the server's current collection, in whatever order
\* overlapping requests were served and their responses delivered.
C12_ViewMatchesServer ==
    [][\A h \in Running :
          /\ MutationSucceeded(h) =>
                \E g \in BagToSet(handlers') :
                    g.kind = h.kind /\ g.phase = "reload" /\ g.net = "sent"
          /\ (ReloadSucceeded(h) /\ handlers' = EmptyBag) =>
                client'.data = SortById(table')]_vars

=============================================================================
